---- MODULE Spec2Model ----
(***************************************************************************)
(* A model of chatstack.ChatContext (src/chatstack/chatstack.py): one      *)
(* session, its message history, the context assembler, the batch          *)
(* completion with its retry loop, and the streaming completion generator. *)
(*                                                                         *)
(* Texts are sequences of one-character strings.  The tokenizer (tiktoken) *)
(* is an external collaborator; it is modelled as one token per character *)
(* of the content, one for the role and one for the newline.               *)
(* Prices are in micro-dollars so that the arithmetic stays exact.         *)
(***************************************************************************)
EXTENDS Integers, Sequences, FiniteSets, TLC

VARIABLES
    model,                  \* self.model
    temperature,            \* self.temperature, in tenths
    base_system_msg,        \* self.base_system_msg
    max_model_context,      \* self.max_model_context
    min_response_tokens,    \* self.min_response_tokens
    max_response_tokens,    \* self.max_response_tokens
    chat_context_messages,  \* self.chat_context_messages
    messages,               \* self.messages, newest first
    pc,                     \* position of the current call
    mode,                   \* "none", "add", "batch" or "stream"
    msg_text,               \* msg_text of the current call
    dynamic_context,        \* dynamic_context of the current call
    prior,                  \* self.messages when the current call was made
    assembled_from,         \* self.messages as read by the assembler
    completion_msgs,        \* completion_msgs of the current call (<<>> before assembly)
    provider_calls,         \* openai.ChatCompletion.create calls made by the current call
    request,                \* <<the last request submitted by the current call>>
    provider_exc,           \* what the provider raised at its last call or read, or "none"
    cr,                     \* <<the ChatResponse of the current call>>
    suspended,              \* the stream generator is suspended at a yield
    yields,                 \* what the consumer saw at each yield of the current call
    increments,             \* the contents the provider's chunks delivered to the current call
    exhausted,              \* next() was called on the finished generator
    err                     \* the exception the current call raised, or "none"

vars == <<model, temperature, base_system_msg, max_model_context,
          min_response_tokens, max_response_tokens, chat_context_messages,
          messages, pc, mode, msg_text, dynamic_context, prior, assembled_from,
          completion_msgs, provider_calls, request, provider_exc, cr, suspended,
          yields, increments, exhausted, err>>

config == <<model, temperature, base_system_msg, max_model_context,
            min_response_tokens, max_response_tokens, chat_context_messages>>

(***************************************************************************)
(* Bounds of the model.                                                    *)
(***************************************************************************)
MaxMessages == 4        \* a call is made only while its turns fit in this many
MaxResponseLen == 2     \* characters of a streamed response

(***************************************************************************)
(* Message model.                                                          *)
(***************************************************************************)
Min(a, b) == IF a < b THEN a ELSE b

encode_len(role, chars) == 1 + 1 + Len(chars)

PerMessageOverhead == 4

ChatRoleMessage(role, text) ==
    [role |-> role, prefix |-> <<>>, text |-> text, is_context |-> FALSE,
     tokens |-> encode_len(role, text) + PerMessageOverhead]

SystemMessage(text) == ChatRoleMessage("system", text)

AssistantMessage(text) == ChatRoleMessage("assistant", text)

UserMessage(text) == ChatRoleMessage("user", text)

ContextMessage(prefix, text) ==
    [role |-> "system", prefix |-> prefix, text |-> text, is_context |-> TRUE,
     tokens |-> encode_len("system", prefix \o <<":", " ">> \o text) + PerMessageOverhead]

content(msg) ==
    IF msg.is_context THEN msg.prefix \o <<":", " ">> \o msg.text ELSE msg.text

GPT3_MODELS == {"gpt-3.5-turbo", "gpt-3.5-turbo-0301"}

GPT4_MODELS == {"gpt-4", "gpt-4-0314"}

GPT3_CONTEXT == 4096

GPT4_CONTEXT == 8192

\* pricing.price: micro-dollars, or the ValueError it raises
price(m, input_tokens, output_tokens) ==
    IF m \in {"gpt-3.5-turbo", "gpt-3.5"}
    THEN [raised |-> FALSE, dollars |-> 2 * (input_tokens + output_tokens)]
    ELSE IF m = "gpt-4"
    THEN [raised |-> FALSE, dollars |-> 30 * input_tokens + 60 * output_tokens]
    ELSE [raised |-> TRUE, dollars |-> 0]

(***************************************************************************)
(* Inputs.                                                                 *)
(***************************************************************************)
SystemTexts == {<<"s", "y", "s", "t">>}

MinResponseChoices == {4066}

HistoryWindowChoices == {0, 1, 2, 50}

UserTexts == {<<"h", "i">>, <<"h", "e", "y">>}

BatchResponses == {<<"o", "k">>}

Chunks == {<<>>, <<"a">>, <<"a", "b">>}

AddedMessages == {AssistantMessage(<<"n">>)}

CtxSmall == ContextMessage(<<"p">>, <<"x">>)

CtxBig == ContextMessage(<<"p">>, <<"x", "x", "x", "x", "x", "x", "x", "x">>)

NoneContext == [is_none |-> TRUE, list |-> <<>>]

ListContext(l) == [is_none |-> FALSE, list |-> l]

DynamicContexts ==
    {NoneContext, ListContext(<<>>), ListContext(<<CtxSmall, CtxSmall>>),
     ListContext(<<CtxBig, CtxSmall>>), ListContext(<<CtxSmall, CtxBig, CtxSmall>>)}

TransientErrors == {"RateLimitError", "APIError"}

ProviderErrors == TransientErrors \cup {"InvalidRequestError"}

(***************************************************************************)
(* ChatContext.__init__                                                    *)
(***************************************************************************)
Init ==
    /\ model \in GPT3_MODELS \cup GPT4_MODELS
    /\ temperature = 5
    /\ base_system_msg \in {SystemMessage(t) : t \in SystemTexts}
    /\ max_model_context = IF model \in GPT3_MODELS THEN GPT3_CONTEXT ELSE GPT4_CONTEXT
    /\ min_response_tokens \in MinResponseChoices
    /\ max_response_tokens = 400
    /\ chat_context_messages \in HistoryWindowChoices
    /\ messages = <<>>
    /\ pc = "idle"
    /\ mode = "none"
    /\ msg_text = <<>>
    /\ dynamic_context = NoneContext
    /\ prior = <<>>
    /\ assembled_from = <<>>
    /\ completion_msgs = <<>>
    /\ provider_calls = 0
    /\ request = <<>>
    /\ provider_exc = "none"
    /\ cr = <<>>
    /\ suspended = FALSE
    /\ yields = <<>>
    /\ increments = <<>>
    /\ exhausted = FALSE
    /\ err = "none"

(***************************************************************************)
(* ChatContext._assemble_completion_msgs                                   *)
(***************************************************************************)
RECURSIVE sum_tokens(_)
sum_tokens(msgs) ==
    IF msgs = <<>> THEN 0 ELSE Head(msgs).tokens + sum_tokens(Tail(msgs))

\* a slip: the window is taken from the old end of the list
SliceOldest(msgs, n) == SubSeq(msgs, Len(msgs) - Min(n, Len(msgs)) + 1, Len(msgs))

Slice(msgs, n) == SubSeq(msgs, 1, Min(n, Len(msgs)))

\* a slip: the window is left newest first
ReverseForgotten(s) == s

Reverse(s) == [i \in 1..Len(s) |-> s[Len(s) + 1 - i]]

Truthy(dc) == ~dc.is_none /\ dc.list # <<>>

\* a slip: the budget is not decremented by the admitted message
RECURSIVE admit_dynamic_no_decrement(_, _)
admit_dynamic_no_decrement(dc, max_dynamic_context) ==
    IF dc = <<>> THEN <<>>
    ELSE IF Head(dc).tokens > max_dynamic_context THEN <<>>
    ELSE <<Head(dc)>> \o admit_dynamic_no_decrement(Tail(dc), max_dynamic_context)

RECURSIVE admit_dynamic(_, _)
admit_dynamic(dc, max_dynamic_context) ==
    IF dc = <<>> THEN <<>>
    ELSE IF Head(dc).tokens > max_dynamic_context THEN <<>>
    ELSE <<Head(dc)>> \o
         admit_dynamic(Tail(dc), max_dynamic_context - Head(dc).tokens)

AssembleRaises(dc) == dc.is_none

assemble_completion_msgs(hist, dc) ==
    LET max_input_context == max_model_context - min_response_tokens
        chat_slice == Slice(hist, chat_context_messages)
        chat_tokens == sum_tokens(chat_slice)
        chat_messages == Reverse(chat_slice)
        max_dynamic_context == max_input_context - chat_tokens - base_system_msg.tokens
        dcl == IF Truthy(dc) THEN dc.list ELSE <<>>
        dynamic_context_messages == admit_dynamic(dcl, max_dynamic_context)
    IN  <<base_system_msg>> \o dynamic_context_messages \o chat_messages

(***************************************************************************)
(* The retry decorator (chatstack/retry.py): the wrapped function is       *)
(* called again after an exception, except one of class ExceptionToRaise,  *)
(* until it has been called `tries` times; the last exception propagates.  *)
(***************************************************************************)
\* a slip: one attempt too many
tries_plus_one == 10 + 1

tries == 10

\* a slip: the wrong exception class is exempted from the retry
ExceptionToRaiseRateLimit == "RateLimitError"

ExceptionToRaise == "InvalidRequestError"

retry(exc, calls_made) ==
    IF exc = ExceptionToRaise THEN "raise"
    ELSE IF calls_made < tries THEN "retry"
    ELSE "raise"

(***************************************************************************)
(* Calls.  A call is made when no other call of the session is running.    *)
(***************************************************************************)
\* a slip: the message is appended, not inserted at the front
insert_at_end(hist, msg) == Append(hist, msg)

\* list.insert(0, msg)
insert0(hist, msg) == <<msg>> \o hist

Callable == pc \in {"idle", "returned", "raised", "done", "cancelled"}

OaiMessages(msgs) == [i \in 1..Len(msgs) |-> [role |-> msgs[i].role, content |-> content(msgs[i])]]

\* a slip: the request overhead is counted once per message
InputTokensPerMessage(msgs) == sum_tokens(msgs) + 2 * Len(msgs)

InputTokens(msgs) == sum_tokens(msgs) + 2

\* ChatContext.add_message
AddMessage(msg) ==
    /\ Callable
    /\ Len(messages) + 1 <= MaxMessages
    /\ messages' = insert0(messages, msg)
    /\ pc' = "idle"
    /\ mode' = "add"
    /\ msg_text' = <<>>
    /\ dynamic_context' = NoneContext
    /\ prior' = messages
    /\ assembled_from' = <<>>
    /\ completion_msgs' = <<>>
    /\ provider_calls' = 0
    /\ request' = <<>>
    /\ provider_exc' = "none"
    /\ cr' = <<>>
    /\ suspended' = FALSE
    /\ yields' = <<>>
    /\ increments' = <<>>
    /\ exhausted' = FALSE
    /\ err' = "none"
    /\ UNCHANGED config

\* a slip: the window is taken without a copy, so that reverse() acts on
\* self.messages itself
assembler_reverses_in_place(hist, dc) ==
    [messages |-> Reverse(Slice(hist, chat_context_messages)) \o
                  SubSeq(hist, Min(chat_context_messages, Len(hist)) + 1, Len(hist)),
     dynamic_context |-> dc]

\* What a call of _assemble_completion_msgs leaves of self.messages and of
\* the caller's dynamic_context: the slice of line 121 is a copy and
\* reverse() acts on the list built from it, line 133 rebinds the parameter
\* and the loop only reads the list.
assembler_leaves(hist, dc) == [messages |-> hist, dynamic_context |-> dc]

\* The two statements both user_message and user_message_stream begin with,
\* and the call of _assemble_completion_msgs that follows them.
InsertAndAssemble(text, dc, next_pc) ==
    LET inserted == insert0(messages, UserMessage(text))
    IN  IF AssembleRaises(dc)
        THEN /\ pc' = "raised"
             /\ err' = "TypeError"
             /\ messages' = inserted
             /\ dynamic_context' = dc
             /\ assembled_from' = <<>>
             /\ completion_msgs' = <<>>
        ELSE /\ pc' = next_pc
             /\ err' = "none"
             /\ messages' = assembler_leaves(inserted, dc).messages
             /\ dynamic_context' = assembler_leaves(inserted, dc).dynamic_context
             /\ assembled_from' = inserted
             /\ completion_msgs' = assemble_completion_msgs(inserted, dc)

\* ChatContext.user_message, up to the call of _completion
UserMessageCall(text, dc) ==
    /\ Callable
    /\ Len(messages) + 2 <= MaxMessages
    /\ mode' = "batch"
    /\ msg_text' = text
    /\ prior' = messages
    /\ InsertAndAssemble(text, dc, "completion")
    /\ provider_calls' = 0
    /\ request' = <<>>
    /\ provider_exc' = "none"
    /\ cr' = <<>>
    /\ suspended' = FALSE
    /\ yields' = <<>>
    /\ increments' = <<>>
    /\ exhausted' = FALSE
    /\ UNCHANGED config

BatchRequest(msgs) ==
    [model |-> model, messages |-> OaiMessages(msgs),
     max_tokens |-> max_response_tokens, temperature |-> <<temperature>>,
     stream |-> FALSE]

\* One attempt of _completion that the provider answers; the rest of
\* user_message follows it.
CompletionOk(response_text) ==
    /\ pc = "completion"
    /\ provider_calls' = provider_calls + 1
    /\ request' = <<BatchRequest(completion_msgs)>>
    /\ provider_exc' = "none"
    /\ LET response_msg == AssistantMessage(response_text)
           input_tokens == InputTokens(completion_msgs)
           p == price(model, input_tokens, response_msg.tokens)
       IN  /\ messages' = insert0(messages, response_msg)
           /\ IF p.raised
              THEN /\ pc' = "raised"
                   /\ err' = "ValueError"
                   /\ cr' = <<>>
              ELSE /\ pc' = "returned"
                   /\ err' = "none"
                   /\ cr' = <<[text |-> response_text, delta |-> <<>>,
                               model |-> model, temperature |-> temperature,
                               inputs |-> completion_msgs,
                               input_tokens |-> input_tokens,
                               response_tokens |-> response_msg.tokens,
                               price |-> p.dollars]>>
    /\ UNCHANGED <<config, increments, exhausted, mode, msg_text, dynamic_context, prior, assembled_from,
                   completion_msgs, suspended, yields>>

\* a slip: a placeholder answer is recorded when the attempts run out
CompletionFailRecordsFallback(exc) ==
    /\ pc = "completion"
    /\ provider_calls' = provider_calls + 1
    /\ request' = <<BatchRequest(completion_msgs)>>
    /\ provider_exc' = exc
    /\ IF retry(exc, provider_calls') = "retry"
       THEN /\ pc' = "completion"
            /\ err' = "none"
            /\ UNCHANGED messages
       ELSE /\ pc' = "raised"
            /\ err' = exc
            /\ messages' = insert0(messages, AssistantMessage(<<>>))
    /\ UNCHANGED <<config, increments, exhausted, mode, msg_text, dynamic_context,
                   prior, assembled_from, completion_msgs, cr, suspended, yields>>

\* One attempt of _completion in which the provider raises exc
CompletionFail(exc) ==
    /\ pc = "completion"
    /\ provider_calls' = provider_calls + 1
    /\ request' = <<BatchRequest(completion_msgs)>>
    /\ provider_exc' = exc
    /\ IF retry(exc, provider_calls') = "retry"
       THEN /\ pc' = "completion"
            /\ err' = "none"
       ELSE /\ pc' = "raised"
            /\ err' = exc
    /\ UNCHANGED <<config, increments, exhausted, messages, mode, msg_text, dynamic_context, prior,
                   assembled_from, completion_msgs, cr, suspended, yields>>

(***************************************************************************)
(* ChatContext.user_message_stream and ChatContext._completion_stream.     *)
(* Both are generator functions: calling them runs none of their body, and *)
(* the retry wrapper around _completion_stream returns the generator       *)
(* object at its first attempt; the body runs under the consumer's next(). *)
(***************************************************************************)
StreamRequest(msgs) ==
    [model |-> model, messages |-> OaiMessages(msgs),
     max_tokens |-> max_response_tokens, temperature |-> <<>>,
     stream |-> TRUE]

\* The consumer's view of cr at a yield
Snapshot(c, terminal) ==
    [delta |-> c.delta, text |-> c.text, response_tokens |-> c.response_tokens,
     price |-> c.price, input_tokens |-> c.input_tokens, inputs |-> c.inputs,
     model |-> c.model, temperature |-> c.temperature, terminal |-> terminal]

\* user_message_stream(msg_text, dynamic_context): the generator is created
UserMessageStreamCall(text, dc) ==
    /\ Callable
    /\ Len(messages) + 2 <= MaxMessages
    /\ pc' = "created"
    /\ mode' = "stream"
    /\ msg_text' = text
    /\ dynamic_context' = dc
    /\ prior' = messages
    /\ assembled_from' = <<>>
    /\ completion_msgs' = <<>>
    /\ provider_calls' = 0
    /\ request' = <<>>
    /\ provider_exc' = "none"
    /\ cr' = <<>>
    /\ suspended' = FALSE
    /\ yields' = <<>>
    /\ increments' = <<>>
    /\ exhausted' = FALSE
    /\ err' = "none"
    /\ UNCHANGED <<config, messages>>

\* The first next(): user_message_stream up to the call of _completion_stream
StreamStart ==
    /\ pc = "created"
    /\ InsertAndAssemble(msg_text, dynamic_context, "opening")
    /\ UNCHANGED <<config, increments, exhausted, mode, msg_text, prior, provider_calls, request,
                   provider_exc, cr, suspended, yields>>

NewStreamResponse(msgs) ==
    [text |-> <<>>, delta |-> <<>>, model |-> model, temperature |-> temperature,
     inputs |-> msgs, input_tokens |-> InputTokens(msgs), response_tokens |-> 0,
     price |-> 0]

\* _completion_stream: cr is built and the provider opens the stream
StreamOpenOk ==
    /\ pc = "opening"
    /\ provider_calls' = provider_calls + 1
    /\ request' = <<StreamRequest(completion_msgs)>>
    /\ provider_exc' = "none"
    /\ cr' = <<NewStreamResponse(completion_msgs)>>
    /\ pc' = "streaming"
    /\ UNCHANGED <<config, increments, exhausted, messages, mode, msg_text, dynamic_context, prior,
                   assembled_from, completion_msgs, suspended, yields, err>>

\* _completion_stream: the provider raises exc on ChatCompletion.create
StreamOpenFail(exc) ==
    /\ pc = "opening"
    /\ provider_calls' = provider_calls + 1
    /\ request' = <<StreamRequest(completion_msgs)>>
    /\ provider_exc' = exc
    /\ cr' = <<NewStreamResponse(completion_msgs)>>
    /\ pc' = "raised"
    /\ err' = exc
    /\ UNCHANGED <<config, increments, exhausted, messages, mode, msg_text, dynamic_context, prior,
                   assembled_from, completion_msgs, suspended, yields>>

\* a slip: text is replaced by the increment
apply_chunk_replaces_text(c, output) == [c EXCEPT !.delta = output, !.text = output]

\* a slip: the response tokens are counted as the increments arrive
apply_chunk_counts_tokens(c, output) ==
    [c EXCEPT !.delta = output, !.text = @ \o output,
              !.response_tokens = @ + Len(output)]

\* cr.delta = output; cr.text += output
apply_chunk(c, output) == [c EXCEPT !.delta = output, !.text = @ \o output]

\* _completion_stream: one chunk is read; a chunk with content is yielded
StreamChunk(output) ==
    /\ pc = "streaming"
    /\ Len(cr[1].text) + Len(output) <= MaxResponseLen
    /\ IF output # <<>>
       THEN /\ cr' = <<apply_chunk(cr[1], output)>>
            /\ yields' = Append(yields, Snapshot(cr'[1], FALSE))
            /\ increments' = Append(increments, output)
            /\ suspended' = TRUE
       ELSE /\ suspended' = FALSE
            /\ UNCHANGED <<cr, yields, increments>>
    /\ UNCHANGED <<config, exhausted, messages, pc, mode, msg_text, dynamic_context, prior,
                   assembled_from, completion_msgs, provider_calls, request,
                   provider_exc, err>>

\* _completion_stream: the provider raises exc while a chunk is read
StreamChunkFail(exc) ==
    /\ pc = "streaming"
    /\ suspended' = FALSE
    /\ provider_exc' = exc
    /\ pc' = "raised"
    /\ err' = exc
    /\ UNCHANGED <<config, increments, exhausted, messages, mode, msg_text, dynamic_context, prior,
                   assembled_from, completion_msgs, provider_calls, request, cr,
                   yields>>

\* a slip: the statements after the loop run with the generator left in the
\* loop, so that the final yield can be followed by further yields
StreamEndStaysInLoop ==
    /\ pc = "streaming"
    /\ Len(messages) <= MaxMessages
    /\ suspended' = TRUE
    /\ LET resp_msg == AssistantMessage(cr[1].text)
           p == price(model, cr[1].input_tokens, resp_msg.tokens)
       IN  /\ messages' = insert0(messages, resp_msg)
           /\ pc' = "streaming"
           /\ err' = "none"
           /\ cr' = <<[cr[1] EXCEPT !.response_tokens = resp_msg.tokens,
                                    !.price = p.dollars]>>
           /\ yields' = Append(yields, Snapshot(cr'[1], TRUE))
    /\ UNCHANGED <<config, increments, exhausted, mode, msg_text, dynamic_context,
                   prior, assembled_from, completion_msgs, provider_calls, request,
                   provider_exc>>

\* _completion_stream: the provider's stream ends; the statements after the loop
StreamEnd ==
    /\ pc = "streaming"
    /\ suspended' = FALSE
    /\ LET resp_msg == AssistantMessage(cr[1].text)
           p == price(model, cr[1].input_tokens, resp_msg.tokens)
       IN  /\ messages' = insert0(messages, resp_msg)
           /\ IF p.raised
              THEN /\ pc' = "raised"
                   /\ err' = "ValueError"
                   /\ cr' = <<[cr[1] EXCEPT !.response_tokens = resp_msg.tokens]>>
                   /\ UNCHANGED yields
              ELSE /\ pc' = "done"
                   /\ err' = "none"
                   /\ cr' = <<[cr[1] EXCEPT !.response_tokens = resp_msg.tokens,
                                            !.price = p.dollars]>>
                   /\ yields' = Append(yields, Snapshot(cr'[1], TRUE))
    /\ UNCHANGED <<config, increments, exhausted, mode, msg_text, dynamic_context, prior, assembled_from,
                   completion_msgs, provider_calls, request, provider_exc>>

\* a slip: the partial text is recorded when the generator is closed
generator_close_records_partial(hist, c) ==
    IF c = <<>> THEN hist ELSE <<AssistantMessage(c[1].text)>> \o hist

\* What closing the generator at a yield does to self.messages: the
\* GeneratorExit raised at the yield is no Exception, so no handler of
\* _completion_stream catches it and no statement after the loop runs.
generator_close(hist, c) == hist

\* The consumer stops iterating: before the first next(), or at a yield
StreamCancel ==
    /\ \/ pc = "created"
       \/ pc = "streaming" /\ suspended
    /\ pc' = "cancelled"
    /\ suspended' = FALSE
    /\ messages' = generator_close(messages, cr)
    /\ UNCHANGED <<config, increments, exhausted, mode, msg_text, dynamic_context, prior, assembled_from,
                   completion_msgs, provider_calls, request, provider_exc, cr,
                   yields, err>>

\* next() on the generator after it returned, raised or was closed raises
\* StopIteration: no statement of the generator runs again
StreamNextAfterEnd ==
    /\ mode = "stream"
    /\ pc \in {"done", "raised", "cancelled"}
    /\ ~exhausted
    /\ exhausted' = TRUE
    /\ UNCHANGED <<config, messages, pc, mode, msg_text, dynamic_context, prior,
                   assembled_from, completion_msgs, provider_calls, request,
                   provider_exc, cr, suspended, yields, increments, err>>

Next ==
    \/ \E msg \in AddedMessages : AddMessage(msg)
    \/ \E text \in UserTexts, dc \in DynamicContexts : UserMessageCall(text, dc)
    \/ \E response_text \in BatchResponses : CompletionOk(response_text)
    \/ \E exc \in ProviderErrors : CompletionFail(exc)
    \/ \E text \in UserTexts, dc \in DynamicContexts : UserMessageStreamCall(text, dc)
    \/ StreamStart
    \/ StreamOpenOk
    \/ \E exc \in ProviderErrors : StreamOpenFail(exc)
    \/ \E output \in Chunks : StreamChunk(output)
    \/ \E exc \in ProviderErrors : StreamChunkFail(exc)
    \/ StreamEnd
    \/ StreamCancel
    \/ StreamNextAfterEnd

Spec == Init /\ [][Next]_vars

(***************************************************************************)
(* Properties.                                                             *)
(***************************************************************************)
MaxInput == max_model_context - min_response_tokens

Assembled == completion_msgs # <<>>

RECURSIVE TokensUpTo(_, _)
TokensUpTo(s, n) == IF n = 0 THEN 0 ELSE s[n].tokens + TokensUpTo(s, n - 1)

TokenSum(s) == TokensUpTo(s, Len(s))

\* the number of history turns the assembler was to take
WindowLen == Min(chat_context_messages, Len(assembled_from))

WindowTokens == TokensUpTo(assembled_from, WindowLen)

FixedTokens == base_system_msg.tokens + WindowTokens

\* the number of dynamic context messages in completion_msgs
AdmittedCount == Len(completion_msgs) - 1 - WindowLen

SuppliedContext == dynamic_context.list

TerminalYielded == yields # <<>> /\ yields[Len(yields)].terminal

RECURSIVE ConcatDeltas(_, _)
ConcatDeltas(ys, n) == IF n = 0 THEN <<>> ELSE ConcatDeltas(ys, n - 1) \o ys[n].delta

IsSuffix(s, t) ==
    /\ Len(s) <= Len(t)
    /\ \A i \in 1..Len(s) : s[i] = t[Len(t) - Len(s) + i]

\* hist is [AssistantTurn(atext), UserTurn(utext)] prepended to before
IsExchangePrepended(hist, atext, utext, before) ==
    /\ Len(hist) = Len(before) + 2
    /\ hist[1].role = "assistant" /\ hist[1].text = atext
    /\ hist[2].role = "user" /\ hist[2].text = utext
    /\ \A i \in 1..Len(before) : hist[i + 2] = before[i]

\* hist is UserTurn(utext) prepended to before
IsUserTurnPrepended(hist, utext, before) ==
    /\ Len(hist) = Len(before) + 1
    /\ hist[1].role = "user" /\ hist[1].text = utext
    /\ \A i \in 1..Len(before) : hist[i + 1] = before[i]

C2_OutputShape ==
    Assembled =>
        /\ AdmittedCount \in 0..Len(SuppliedContext)
        /\ completion_msgs[1] = base_system_msg
        /\ \A i \in 1..AdmittedCount : completion_msgs[1 + i] = SuppliedContext[i]
        /\ \A j \in 1..WindowLen :
               completion_msgs[1 + AdmittedCount + j] = assembled_from[WindowLen + 1 - j]
        /\ chat_context_messages = 0 =>
               \A i \in 2..Len(completion_msgs) : completion_msgs[i].is_context

\* C2 witness: more history than the window of two turns, the two turns
\* differ, and dynamic context was admitted.
C2_Witness ==
    /\ Assembled
    /\ chat_context_messages = 2
    /\ Len(assembled_from) > 2
    /\ assembled_from[1] # assembled_from[2]
    /\ AdmittedCount >= 1

\* C3: the admitted dynamic context is the longest prefix of the supplied
\* one whose messages each fit in the budget left by the ones before it; a
\* negative budget admits nothing; and a call made with no dynamic context
\* (None or empty) is assembled with none admitted.
C3_GreedyPrefixAdmission ==
    LET budget == MaxInput - WindowTokens - base_system_msg.tokens
        k == AdmittedCount
    IN  /\ Assembled =>
            /\ k \in 0..Len(SuppliedContext)
            /\ \A i \in 1..k :
                   /\ completion_msgs[1 + i] = SuppliedContext[i]
                   /\ SuppliedContext[i].tokens <= budget - TokensUpTo(SuppliedContext, i - 1)
            /\ k < Len(SuppliedContext) =>
                   SuppliedContext[k + 1].tokens > budget - TokensUpTo(SuppliedContext, k)
            /\ budget < 0 => k = 0
        /\ (mode \in {"batch", "stream"} /\ pc # "created" /\ ~Truthy(dynamic_context)) =>
               Assembled /\ AdmittedCount = 0

\* C4 (as stated): after a cancelled stream the history is what it was
\* before the call.
C4_CancelledStreamLeavesHistoryUnchanged ==
    pc = "cancelled" => messages = prior

\* C4 (amended): after a cancelled stream the history holds nothing of the
\* assistant's partial output: it is what it was before the call when the
\* consumer never asked for an item, and otherwise that with the call's
\* UserTurn prepended.
C4_CancelledStreamAddsOnlyUserTurn ==
    pc = "cancelled" =>
        IF yields = <<>>
        THEN messages = prior
        ELSE IsUserTurnPrepended(messages, msg_text, prior)

\* C4 witness: a stream cancelled after two intermediate yields, with a
\* history before it.
C4_Witness ==
    pc = "cancelled" /\ Len(yields) >= 2 /\ prior # <<>>

\* C5: in streaming mode, while the terminal yield has not been produced the
\* history holds no AssistantTurn of the exchange, and once it has been
\* produced the history holds exactly one.
C5_AssistantTurnOnlyAfterTerminalYield ==
    (mode = "stream") =>
        IF TerminalYielded
        THEN IsExchangePrepended(messages, yields[Len(yields)].text, msg_text, prior)
        ELSE messages = prior \/ IsUserTurnPrepended(messages, msg_text, prior)

\* C6: when a stream has been drained, the concatenation of the deltas of
\* all its yields, the final one included, is the text of the final yield.
C6_DeltasConcatenateToFinalText ==
    (mode = "stream" /\ pc = "done") =>
        ConcatDeltas(yields, Len(yields)) = yields[Len(yields)].text

\* C7: every step keeps the history it found as a suffix; a user_message
\* that returns and a user_message_stream drained to its terminal yield
\* leave [AssistantTurn(response), UserTurn(text)] prepended to the history
\* before the call; add_message prepends the given turn and calls no provider.
C7_HistoryGrowsByPrepending ==
    [][/\ IsSuffix(messages, messages')
       /\ (pc = "completion" /\ pc' = "returned") =>
              IsExchangePrepended(messages', cr'[1].text, msg_text, prior)
       /\ (pc = "streaming" /\ pc' = "done") =>
              IsExchangePrepended(messages', yields'[Len(yields')].text, msg_text, prior)
       /\ (mode' = "add") =>
              /\ Len(messages') = Len(messages) + 1
              /\ messages'[1] \in AddedMessages
              /\ \A i \in 1..Len(messages) : messages'[i + 1] = messages[i]
              /\ provider_calls' = 0 /\ request' = <<>>
      ]_vars

\* C7 witness: a drained stream whose history before the call was longer
\* than the history window.
C7_Witness ==
    /\ pc = "done"
    /\ Len(prior) = 2
    /\ chat_context_messages = 1
    /\ IsExchangePrepended(messages, yields[Len(yields)].text, msg_text, prior)

C9_InvalidRequestNotRetried ==
    (provider_exc = "InvalidRequestError") =>
        pc = "raised" /\ err = "InvalidRequestError"

\* C9 witness: a batch call that raised InvalidRequestError at its third
\* attempt, after two transient errors.
C9_Witness ==
    /\ mode = "batch"
    /\ pc = "raised"
    /\ err = "InvalidRequestError"
    /\ provider_calls = 3

\* C10: in streaming mode a transient provider error is not raised to the
\* consumer before the 10th attempt.
C10_StreamTransientRetried ==
    (mode = "stream" /\ pc = "raised" /\ err \in TransientErrors) =>
        provider_calls >= 10

ProviderView(inputs) ==
    [i \in 1..Len(inputs) |->
        [role |-> inputs[i].role,
         content |-> IF inputs[i].is_context
                     THEN inputs[i].prefix \o <<":", " ">> \o inputs[i].text
                     ELSE inputs[i].text]]

\* r.inputs is the list submitted to the provider and r.input_tokens is its
\* token sum plus 2
InputsAsSubmitted(r) ==
    /\ request # <<>>
    /\ request[1].messages = ProviderView(r.inputs)
    /\ r.input_tokens = TokenSum(r.inputs) + 2

\* C12: the ChatResponse user_message returns, and every ChatResponse
\* user_message_stream yields, has as inputs the ordered message list
\* submitted to the provider and as input_tokens the token sum of inputs
\* plus 2.
C12_InputsAndInputTokens ==
    /\ (mode = "batch" /\ pc = "returned") => InputsAsSubmitted(cr[1])
    /\ (mode = "stream") => \A i \in 1..Len(yields) : InputsAsSubmitted(yields[i])

\* C12 witness: a drained stream of three yields whose input held the system
\* turn, dynamic context and two history turns.
C12_Witness ==
    /\ mode = "stream"
    /\ pc = "done"
    /\ Len(yields) = 3
    /\ AdmittedCount >= 1
    /\ WindowLen = 2

RECURSIVE ConcatFirst(_, _)
ConcatFirst(seqs, n) == IF n = 0 THEN <<>> ELSE ConcatFirst(seqs, n - 1) \o seqs[n]

\* price in micro-dollars per the price list: 0.002 $ per 1000 tokens for
\* gpt-3.5-turbo, 0.03 $ and 0.06 $ per 1000 input and output tokens for gpt-4
ListedPrice(m, input_tokens, output_tokens) ==
    IF m = "gpt-4" THEN 30 * input_tokens + 60 * output_tokens
    ELSE 2 * (input_tokens + output_tokens)

\* C13: in streaming mode the i-th intermediate yield carries the
\* concatenation of the first i increments as text, the i-th increment as
\* delta, and response_tokens = 0 and price = 0; the final yield carries
\* the token count of the AssistantTurn put in the history as
\* response_tokens and the price of (input_tokens, response_tokens) as price.
C13_YieldContents ==
    (mode = "stream") =>
        /\ \A i \in 1..Len(yields) :
               ~yields[i].terminal =>
                   /\ i <= Len(increments)
                   /\ yields[i].text = ConcatFirst(increments, i)
                   /\ yields[i].delta = increments[i]
                   /\ yields[i].response_tokens = 0
                   /\ yields[i].price = 0
        /\ TerminalYielded =>
               LET y == yields[Len(yields)]
               IN  /\ messages[1].role = "assistant"
                   /\ messages[1].text = y.text
                   /\ y.text = ConcatFirst(increments, Len(increments))
                   /\ y.response_tokens = messages[1].tokens
                   /\ y.price = ListedPrice(model, y.input_tokens, y.response_tokens)

\* C13 witness: a gpt-4 stream of two increments drained to its final yield.
C13_Witness ==
    /\ mode = "stream"
    /\ pc = "done"
    /\ model = "gpt-4"
    /\ Len(increments) = 2
    /\ Len(yields) = 3

\* the provider's stream of the current call has ended
StreamEnded == mode = "stream" /\ (pc = "done" \/ (pc = "raised" /\ err = "ValueError"))

\* C14: when the provider's stream ends without having delivered a
\* non-empty increment, the call has produced exactly one yield, the
\* terminal one, with empty text, and an AssistantTurn of empty text has
\* been prepended to the history.
C14_EmptyStreamYieldsOnce ==
    (StreamEnded /\ increments = <<>>) =>
        /\ Len(yields) = 1
        /\ yields[1].terminal
        /\ yields[1].text = <<>>
        /\ IsExchangePrepended(messages, <<>>, msg_text, prior)

\* the position of a streaming call: INIT (created, opening), STREAMING,
\* and the ends DONE, raised and cancelled
StreamRank(p) ==
    IF p = "created" THEN 0
    ELSE IF p = "opening" THEN 1
    ELSE IF p = "streaming" THEN 2
    ELSE 3

\* the step begins another call of the session
NewCallStep == Callable /\ (mode' # "stream" \/ pc' = "created")

\* C15: a streaming call never moves back in INIT -> STREAMING -> DONE; a
\* terminal yield is the last yield, there is one exactly when DONE is
\* reached and none otherwise, it is produced by the step in which the
\* provider's stream ends, and once the call is DONE or has raised, no step
\* of the call yields again or changes the history.
C15_StreamStateMachine ==
    /\ [](mode = "stream" =>
            /\ \A i \in 1..Len(yields) : yields[i].terminal => i = Len(yields)
            /\ TerminalYielded <=> pc = "done")
    /\ [][(mode = "stream" /\ ~NewCallStep) =>
              /\ mode' = "stream"
              /\ StreamRank(pc') >= StreamRank(pc)
              /\ (yields' # yields /\ yields'[Len(yields')].terminal) =>
                     pc = "streaming" /\ pc' = "done" /\ increments' = increments
              /\ (pc \in {"done", "raised", "cancelled"}) =>
                     pc' = pc /\ yields' = yields /\ messages' = messages
      ]_vars

\* C15 witness: a stream drained through two intermediate yields to DONE,
\* after which the consumer asked for another item.
C15_Witness ==
    /\ mode = "stream"
    /\ pc = "done"
    /\ Len(yields) = 3
    /\ exhausted

\* the ChatResponse object of the current stream has been handed to the
\* consumer (every yield of a call yields the same object, cr)
Handed == mode = "stream" /\ yields # <<>> /\ cr # <<>>

\* the fields of cr that describe the request are as at its first yield
RequestFieldsKept ==
    /\ cr[1].model = yields[1].model
    /\ cr[1].temperature = yields[1].temperature
    /\ cr[1].inputs = yields[1].inputs
    /\ cr[1].input_tokens = yields[1].input_tokens

\* the response_tokens and price of cr are as at its first yield
AccountingFieldsKept ==
    /\ cr[1].response_tokens = yields[1].response_tokens
    /\ cr[1].price = yields[1].price

\* C16 (as stated): the model, temperature, inputs, input_tokens,
\* response_tokens and price of a yielded ChatResponse keep the values they
\* had when it was first yielded.
C16_YieldedResponseKeepsFields ==
    Handed => RequestFieldsKept /\ AccountingFieldsKept

\* C16 (amended): the model, temperature, inputs and input_tokens of a
\* yielded ChatResponse keep the values they had when it was first yielded,
\* and so do its response_tokens and price for as long as the stream is in
\* progress; these two are overwritten when the provider's stream ends.
C16_YieldedResponseKeepsRequestFields ==
    Handed =>
        /\ RequestFieldsKept
        /\ (pc = "streaming") => AccountingFieldsKept

\* C16 witness: a drained stream whose first yield was an intermediate one,
\* so that the object yielded first has had response_tokens and price
\* overwritten.
C16_Witness ==
    /\ Handed
    /\ pc = "done"
    /\ Len(yields) = 3
    /\ cr[1].response_tokens # yields[1].response_tokens
    /\ cr[1].price # yields[1].price

\* C17: a session constructed with a model of GPT3_MODELS or GPT4_MODELS
\* never fails with the unsupported-model error of pricing: when the
\* provider has returned a completion, user_message returns its
\* ChatResponse, and when the provider's stream has ended,
\* user_message_stream has produced its terminal yield.
C17_NoUnsupportedModelError ==
    /\ err # "ValueError"
    /\ (mode = "batch" /\ provider_calls >= 1 /\ provider_exc = "none") =>
           pc = "returned" /\ cr # <<>>
    /\ StreamEnded => pc = "done" /\ TerminalYielded

\* C18: the request a call submits carries the session's model, the
\* assembled messages, max_response_tokens as max_tokens and the session's
\* temperature, in batch and in streaming mode alike, and the temperature
\* recorded in the ChatResponse is the one the request carries.
C18_SameRequestInBothModes ==
    (request # <<>>) =>
        /\ request[1].stream = (mode = "stream")
        /\ request[1].model = model
        /\ request[1].messages = ProviderView(completion_msgs)
        /\ request[1].max_tokens = max_response_tokens
        /\ request[1].temperature = <<temperature>>
        /\ (cr # <<>>) => request[1].temperature = <<cr[1].temperature>>

\* C19: when a batch call has failed with a provider error, the history is
\* the history before the call with the call's UserTurn prepended: one
\* UserTurn however many attempts were made, and no AssistantTurn.
C19_FailedBatchAddsOnlyUserTurn ==
    (mode = "batch" /\ pc = "raised" /\ err \in ProviderErrors) =>
        IsUserTurnPrepended(messages, msg_text, prior)

\* C19 witness: a batch call over an earlier history that failed with a
\* transient error at its 10th attempt.
C19_Witness ==
    /\ mode = "batch"
    /\ pc = "raised"
    /\ err \in TransientErrors
    /\ provider_calls = 10
    /\ prior # <<>>

\* C20: with chat_context_messages >= 1, the message list a call submits to
\* the provider ends with the user's message of that call.
C20_RequestEndsWithCurrentUserTurn ==
    (request # <<>> /\ chat_context_messages >= 1) =>
        LET sent == request[1].messages
        IN  sent[Len(sent)] = [role |-> "user", content |-> msg_text]

\* C20 witness: a streaming call with admitted dynamic context, made after
\* add_message put a turn on top of an earlier exchange whose user text was
\* another one.
C20_Witness ==
    /\ mode = "stream"
    /\ request # <<>>
    /\ chat_context_messages >= 1
    /\ AdmittedCount >= 1
    /\ Len(prior) = 2
    /\ prior[1] \in AddedMessages
    /\ prior[2].role = "user" /\ prior[2].text # msg_text

====
